---- MODULE Spec2Model ----
(***************************************************************************)
(* Transaction encoding and hashing core of package bc: the binary codec   *)
(* of TxData (readFrom / writeTo), the canonical hash, Tx with its cached  *)
(* Hash, the SigHasher midstate cache, and WriteTo on a fallible sink.     *)
(*                                                                         *)
(* Representation.  A byte is an integer 0..255 and a byte string is a     *)
(* sequence of bytes.  TLC's integers are 32 bits wide, so a Go uint32 or  *)
(* uint64 VALUE (Version, Index, Amount, MinTime, ...) is kept as its      *)
(* little-endian base-128 digits with no trailing zero digit (zero is      *)
(* <<0>>).  This is exactly the payload of its uvarint, and it keeps all   *)
(* 64 bits: narrowing to uint32 keeps the low 32 bits of the digits.       *)
(*                                                                         *)
(* Evaluation.  Let(v, F) evaluates v once and applies F to the value; the *)
(* decoders and the writer are sequenced with it, one read or write after  *)
(* the other, as the code's statements are.                                *)
(***************************************************************************)
EXTENDS Integers, Sequences, FiniteSets, TLC

\* ------------------------------------------------------------------ bounds
\* Longest list of inputs, and of outputs, of a transaction drawn as an input.
MaxItems == 2
\* Most decode calls made on one receiver.
MaxCalls == 2
\* Concurrent callers of one SigHasher.
NumCallers == 2

\* --------------------------------------------------------------- constants
InvalidOutputIndex == <<127, 127, 127, 127, 15>>  \* 0xffffffff
VMVersion == 1
assetDefinitionMaxByteLength == 5000000
metadataMaxByteLength == 500000
scriptMaxByteLength == 10000
commitmentMaxByteLength == 20000
SerWitness == 1
SerPrevout == 2
SerMetadata == 4
serRequired == 7
SigHashAll == 1
SigHashNone == 2
SigHashSingle == 3
SigHashAnyOneCanPay == 128
sigHashMask == 31
HashSize == 32

\* ----------------------------------------------------------------- helpers
Let(v, F(_)) == CHOOSE res \in {F(b) : b \in {v}} : TRUE

Min(a, b) == IF a < b THEN a ELSE b

MaxOf(S) == CHOOSE i \in S : \A j \in S : j <= i

MinOf(S) == CHOOSE i \in S : \A j \in S : i <= j

Zeros(n) == [i \in 1..n |-> 0]

Prefix(s, k) == SubSeq(s, 1, k)

Drop(s, k) == SubSeq(s, k + 1, Len(s))

\* serflags & bit # 0, for the three one-bit flags.
HasFlag(serflags, bit) == (serflags \div bit) % 2 = 1

\* ------------------------------------------------- unsigned integer values
\* Canonical digits: trailing zero digits dropped, zero is <<0>>.
UNorm(ds) ==
    IF \A i \in 1..Len(ds) : ds[i] = 0 THEN <<0>>
    ELSE Prefix(ds, MaxOf({i \in 1..Len(ds) : ds[i] # 0}))

RECURSIVE U(_)
\* The digits of a small natural number.
U(n) == IF n < 128 THEN <<n>> ELSE <<n % 128>> \o U(n \div 128)

RECURSIVE UToNat(_)
\* The number a digit string of at most 4 digits (< 2^28) stands for.
UToNat(ds) == IF Len(ds) = 0 THEN 0 ELSE Head(ds) + 128 * UToNat(Tail(ds))

\* uint64 > max, for a cap max < 2^28.
UGreater(ds, max) == Len(ds) > 4 \/ UToNat(ds) > max

\* uint32(v): the low 32 bits, that is digits 1..4 and the low 4 bits of digit 5.
Uint32(ds) ==
    UNorm([i \in 1..Min(Len(ds), 5) |-> IF i = 5 THEN ds[i] % 16 ELSE ds[i]])

\* n > 0 and n-- of the decode loops.
UIsZero(ds) == ds = <<0>>

UDec(ds) ==
    LET k == MinOf({i \in 1..Len(ds) : ds[i] # 0})
    IN  UNorm([i \in 1..Len(ds) |->
                  IF i < k THEN 127 ELSE IF i = k THEN ds[i] - 1 ELSE ds[i]])

\* ------------------------------------------------------------------ hashes
\* sha3.Sum256 as an ideal, collision-free hash: the digest is represented
\* by its bracketed preimage (the markers -1 and -2 are no bytes), so that
\* digests written into a further hash input stay unambiguous.
Sum256(data) == <<-1>> \o data \o <<-2>>

\* The pruned-field digest: a fixed function to HashSize bytes that is
\* injective on the byte strings of fewer than HashSize bytes, with the
\* all-zero digest for empty data.
fastHash(data) ==
    IF Len(data) = 0 THEN Zeros(HashSize)
    ELSE <<Len(data)>> \o data \o Zeros(HashSize - 1 - Len(data))

\* ----------------------------------------------------------------- writers
\* What a writeTo does to its writer w is the sequence of Write calls it
\* makes: [p, ifOk] writes the bytes p, and with ifOk only when the Write
\* before it returned no error (the early return of Outpoint.WriteTo).
Write(p) == <<[p |-> p, ifOk |-> FALSE]>>

\* binary.PutUvarint: LEB128, low digits first, high bit on all but the last.
PutUvarint(x) ==
    [i \in 1..Len(x) |-> IF i < Len(x) THEN x[i] + 128 ELSE x[i]]

WriteUvarint(x) == Write(PutUvarint(x))

\* A length-prefixed byte string: uvarint length, then the bytes.
WriteBytes(data) == WriteUvarint(U(Len(data))) \o Write(data)

\* An io.Writer: buf is what the sink holds, calls counts the sink's Write
\* calls, the failAt-th of which fails after taking `accept` bytes (failAt = 0:
\* an in-memory buffer or a hash, which never fails).  With sticky, it is an
\* errors.Writer around that sink: err is its first error, n its byte count.
\* last is the error the last Write call returned.
NewSink(failAt, accept) ==
    [buf |-> <<>>, calls |-> 0, failAt |-> failAt, accept |-> accept,
     sticky |-> FALSE, err |-> FALSE, n |-> 0, last |-> FALSE]

NewBuffer == NewSink(0, 0)

errors_NewWriter(w) == [w EXCEPT !.sticky = TRUE, !.err = FALSE, !.n = 0]

\* One Write call on w.
WriterWrite(w, op) ==
    IF op.ifOk /\ w.last THEN w
    ELSE IF w.sticky /\ w.err THEN [w EXCEPT !.last = TRUE]
    ELSE LET fails == (w.calls + 1 = w.failAt)
             k == IF fails THEN Min(w.accept, Len(op.p)) ELSE Len(op.p)
         IN  [w EXCEPT !.buf = @ \o Prefix(op.p, k), !.calls = @ + 1,
                       !.err = fails, !.n = @ + k, !.last = fails]

RECURSIVE DeliverRange(_, _, _, _)
\* The Write calls ops[lo..hi] made on w, in order.
DeliverRange(w, ops, lo, hi) ==
    IF lo > hi THEN w
    ELSE IF lo = hi THEN WriterWrite(w, ops[lo])
    ELSE Let(DeliverRange(w, ops, lo, (lo + hi) \div 2),
             LAMBDA w1 : DeliverRange(w1, ops, ((lo + hi) \div 2) + 1, hi))

Deliver(w, writes) ==
    Let(w, LAMBDA w0 : Let(writes, LAMBDA ops : DeliverRange(w0, ops, 1, Len(ops))))

\* ----------------------------------------------------------------- readers
\* A reader is the bytes left of the stream; at the end every read fails.
\* Each read returns [v, r, err]: the value, the reader after it, the error.
ReadFull(r, n) ==
    IF Len(r) >= n THEN [v |-> Prefix(r, n), r |-> Drop(r, n), err |-> FALSE]
    ELSE [v |-> r \o Zeros(n - Len(r)), r |-> <<>>, err |-> TRUE]

\* binary.ReadUvarint: at most 10 bytes, the 10th at most 1; on an error the
\* digits read so far are returned with it.  k is the first byte below 128
\* among the first 10, or 0 when there is none.
ReadUvarintAt(r, k) ==
    LET m == Min(Len(r), 10)
        digits(j) == UNorm([i \in 1..j |-> r[i] % 128])
    IN  IF k = 0 THEN [v |-> digits(m), r |-> Drop(r, m), err |-> TRUE]
        ELSE IF k = 10 /\ r[k] > 1
        THEN [v |-> digits(9), r |-> Drop(r, 10), err |-> TRUE]
        ELSE [v |-> digits(k), r |-> Drop(r, k), err |-> FALSE]

ReadUvarint(r) ==
    Let(r, LAMBDA b :
        LET ends == {i \in 1..Min(Len(b), 10) : b[i] < 128}
        IN  ReadUvarintAt(b, IF ends = {} THEN 0 ELSE MinOf(ends)))

\* A length-prefixed byte string of at most max bytes: an error when the
\* length cannot be read, exceeds max, or exceeds what the stream holds.
ReadBytes(r, max) ==
    Let(ReadUvarint(r), LAMBDA n :
        IF n.err THEN [v |-> <<>>, r |-> n.r, err |-> TRUE]
        ELSE IF UGreater(n.v, max) THEN [v |-> <<>>, r |-> n.r, err |-> TRUE]
        ELSE IF Len(n.r) < UToNat(n.v) THEN [v |-> <<>>, r |-> <<>>, err |-> TRUE]
        ELSE ReadFull(n.r, UToNat(n.v)))

\* ------------------------------------------------------------------- types
ZeroHash == Zeros(HashSize)

ZeroAssetAmount == [AssetID |-> ZeroHash, Amount |-> <<0>>]

\* new(TxInput), new(TxOutput), the zero OutputCommitment and TxData{}.
ZeroTxInput ==
    [Previous |-> [Hash |-> ZeroHash, Index |-> <<0>>],
     AssetAmount |-> ZeroAssetAmount, PrevScript |-> <<>>,
     SignatureScript |-> <<>>, Metadata |-> <<>>, AssetDefinition |-> <<>>]

ZeroOutputCommitment ==
    [AssetAmount |-> ZeroAssetAmount, VMVersion |-> <<0>>, ControlProgram |-> <<>>]

ZeroTxOutput ==
    [AssetVersion |-> <<0>>, OutputCommitment |-> ZeroOutputCommitment,
     ReferenceData |-> <<>>]

ZeroTxData ==
    [SerFlags |-> 0, Version |-> <<0>>, Inputs |-> <<>>, Outputs |-> <<>>,
     MinTime |-> <<0>>, MaxTime |-> <<0>>, Metadata |-> <<>>]

IsIssuance(ti) == ti.Previous.Index = InvalidOutputIndex

\* ---------------------------------------------------------------- encoding
\* writeMetadata that writes an empty field in place of the digest.
writeMetadata_NoDigest(data, serflags) ==
    IF HasFlag(serflags, SerMetadata) THEN WriteBytes(data)
    ELSE WriteBytes(<<>>)

writeMetadata(data, serflags) ==
    IF HasFlag(serflags, SerMetadata) THEN WriteBytes(data)
    ELSE WriteBytes(fastHash(data))

AssetAmount_writeTo(a) == Write(a.AssetID) \o WriteUvarint(a.Amount)

Outpoint_WriteTo(p) ==
    Write(p.Hash) \o <<[p |-> PutUvarint(p.Index), ifOk |-> TRUE]>>

\* An input written with its SignatureScript whatever the serflags.
TxInput_writeTo_AlwaysWitness(ti, serflags) ==
    Outpoint_WriteTo(ti.Previous)
    \o (IF HasFlag(serflags, SerPrevout)
        THEN AssetAmount_writeTo(ti.AssetAmount) \o WriteBytes(ti.PrevScript)
        ELSE <<>>)
    \o WriteBytes(ti.SignatureScript)
    \o writeMetadata(ti.Metadata, serflags)
    \o writeMetadata(ti.AssetDefinition, serflags)

\* An input written without its PrevScript.
TxInput_writeTo_NoPrevScript(ti, serflags) ==
    Outpoint_WriteTo(ti.Previous)
    \o (IF HasFlag(serflags, SerPrevout)
        THEN AssetAmount_writeTo(ti.AssetAmount)
        ELSE <<>>)
    \o (IF HasFlag(serflags, SerWitness)
        THEN WriteBytes(ti.SignatureScript)
        ELSE WriteBytes(<<>>))
    \o writeMetadata(ti.Metadata, serflags)
    \o writeMetadata(ti.AssetDefinition, serflags)

TxInput_writeTo(ti, serflags) ==
    Outpoint_WriteTo(ti.Previous)
    \o (IF HasFlag(serflags, SerPrevout)
        THEN AssetAmount_writeTo(ti.AssetAmount) \o WriteBytes(ti.PrevScript)
        ELSE <<>>)
    \o (IF HasFlag(serflags, SerWitness)
        THEN WriteBytes(ti.SignatureScript)
        ELSE WriteBytes(<<>>))
    \o writeMetadata(ti.Metadata, serflags)
    \o writeMetadata(ti.AssetDefinition, serflags)

\* The commitment is rendered into a buffer of its own, then length-prefixed.
OutputCommitment_writeTo(oc, assetVersion) ==
    WriteBytes(Deliver(NewBuffer,
                       IF assetVersion = <<1>>
                       THEN AssetAmount_writeTo(oc.AssetAmount)
                            \o WriteUvarint(oc.VMVersion)
                            \o WriteBytes(oc.ControlProgram)
                       ELSE <<>>).buf)

TxOutput_writeTo(to, serflags) ==
    WriteUvarint(to.AssetVersion)
    \o OutputCommitment_writeTo(to.OutputCommitment, to.AssetVersion)
    \o writeMetadata(to.ReferenceData, serflags)
    \o WriteBytes(<<>>)

RECURSIVE writeInputs(_, _, _)
\* for _, ti := range tx.Inputs { ti.writeTo(w, serflags) }, from the i-th on.
writeInputs(inputs, i, serflags) ==
    IF i > Len(inputs) THEN <<>>
    ELSE TxInput_writeTo(inputs[i], serflags) \o writeInputs(inputs, i + 1, serflags)

RECURSIVE writeOutputs(_, _, _)
writeOutputs(outputs, i, serflags) ==
    IF i > Len(outputs) THEN <<>>
    ELSE TxOutput_writeTo(outputs[i], serflags) \o writeOutputs(outputs, i + 1, serflags)

TxData_writeTo(tx, serflags) ==
    Write(<<serflags>>)
    \o WriteUvarint(tx.Version)
    \o WriteUvarint(U(Len(tx.Inputs)))
    \o writeInputs(tx.Inputs, 1, serflags)
    \o WriteUvarint(U(Len(tx.Outputs)))
    \o writeOutputs(tx.Outputs, 1, serflags)
    \o WriteUvarint(tx.MinTime)
    \o WriteUvarint(tx.MaxTime)
    \o writeMetadata(tx.Metadata, serflags)

\* WriteTo that writes to w itself, not to the errors.Writer around it.
TxData_WriteTo_Unwrapped(w, tx) ==
    Let(Deliver(w, TxData_writeTo(tx, serRequired)),
        LAMBDA out : [w |-> out, n |-> 0, err |-> FALSE])

\* WriteTo: the writer after the call, and the returned (Written(), Err()).
TxData_WriteTo(w, tx) ==
    Let(Deliver(errors_NewWriter(w), TxData_writeTo(tx, serRequired)),
        LAMBDA ew : [w |-> ew, n |-> ew.n, err |-> ew.err])

\* The full (serflags 0x07) encoding in memory.
Encode(tx) == TxData_WriteTo(NewBuffer, tx).w.buf

TxData_Hash(tx) == Sum256(Deliver(NewBuffer, TxData_writeTo(tx, 0)).buf)

\* --------------------------------------------------------------- SigHasher
\* The bytes a hash or a buffer has taken after the Write calls `writes`.
Written(writes) == Deliver(NewBuffer, writes).buf

\* A memoized midstate: a nil pointer, or a pointer to the Hash h.
NilHash == [set |-> FALSE, h |-> ZeroHash]

NewSigHasher == [inputsHash |-> NilHash, allOutputsHash |-> NilHash]

\* The digest getInputsHash computes: input count, then every input canonically.
InputsDigest(tx) ==
    Sum256(Written(WriteUvarint(U(Len(tx.Inputs))) \o writeInputs(tx.Inputs, 1, 0)))

OutputsDigest(tx) ==
    Sum256(Written(WriteUvarint(U(Len(tx.Outputs))) \o writeOutputs(tx.Outputs, 1, 0)))

\* Each returns the SigHasher after the call and the Hash pointed to.
getInputsHash(s, tx) ==
    IF ~s.inputsHash.set
    THEN Let(InputsDigest(tx), LAMBDA hash :
             [s |-> [s EXCEPT !.inputsHash = [set |-> TRUE, h |-> hash]], h |-> hash])
    ELSE [s |-> s, h |-> s.inputsHash.h]

\* getAllOutputsHash that keeps its digest in the inputsHash field.
getAllOutputsHash_InputsField(s, tx) ==
    IF ~s.inputsHash.set
    THEN Let(OutputsDigest(tx), LAMBDA hash :
             [s |-> [s EXCEPT !.inputsHash = [set |-> TRUE, h |-> hash]], h |-> hash])
    ELSE [s |-> s, h |-> s.inputsHash.h]

getAllOutputsHash(s, tx) ==
    IF ~s.allOutputsHash.set
    THEN Let(OutputsDigest(tx), LAMBDA hash :
             [s |-> [s EXCEPT !.allOutputsHash = [set |-> TRUE, h |-> hash]], h |-> hash])
    ELSE [s |-> s, h |-> s.allOutputsHash.h]

\* hashType & SigHashAnyOneCanPay # 0, and hashType & sigHashMask.
IsAnyOneCanPay(hashType) == (hashType \div SigHashAnyOneCanPay) % 2 = 1

BaseType(hashType) == hashType % (sigHashMask + 1)

\* The output commitment of the input signed: empty for an issuance.
SigOutputCommitment(ti) ==
    IF IsIssuance(ti) THEN <<>>
    ELSE Written(Write(ti.AssetAmount.AssetID) \o WriteUvarint(ti.AssetAmount.Amount)
                 \o WriteUvarint(U(VMVersion)) \o WriteBytes(ti.PrevScript))

\* The digest over output idx alone (idx counts from 0).
SingleOutputDigest(tx, idx) ==
    Sum256(Written(WriteUvarint(<<1>>) \o TxOutput_writeTo(tx.Outputs[idx + 1], 0)))

\* The final digest, from the two hash contributions.
SigFinalDigest(tx, idx, hashType, inputsHash, outputsHash) ==
    Sum256(Written(WriteUvarint(tx.Version)
                   \o Write(inputsHash)
                   \o TxInput_writeTo(tx.Inputs[idx + 1], 0)
                   \o WriteBytes(SigOutputCommitment(tx.Inputs[idx + 1]))
                   \o Write(outputsHash)
                   \o WriteUvarint(tx.MinTime)
                   \o WriteUvarint(tx.MaxTime)
                   \o writeMetadata(tx.Metadata, 0)
                   \o Write(<<hashType>>)))

\* s.Hash(idx, hashType) on the SigHasher s of tx, idx counting from 0:
\* the SigHasher after the call and the hash returned.  A base type that is
\* none of the three leaves outputsHash nil; the operations pass none.
SigHasher_Hash(s, tx, idx, hashType) ==
    Let(IF ~IsAnyOneCanPay(hashType) THEN getInputsHash(s, tx)
        ELSE [s |-> s, h |-> ZeroHash], LAMBDA in :
    Let(IF BaseType(hashType) = SigHashAll THEN getAllOutputsHash(in.s, tx)
        ELSE IF BaseType(hashType) = SigHashNone THEN [s |-> in.s, h |-> ZeroHash]
        ELSE IF BaseType(hashType) # SigHashSingle THEN [s |-> in.s, h |-> <<>>]
        ELSE IF idx >= Len(tx.Outputs) THEN [s |-> in.s, h |-> ZeroHash]
        ELSE [s |-> in.s, h |-> SingleOutputDigest(tx, idx)], LAMBDA out :
        [s |-> out.s, hash |-> SigFinalDigest(tx, idx, hashType, in.h, out.h)]))

TxData_HashForSig(tx, idx, hashType) == SigHasher_Hash(NewSigHasher, tx, idx, hashType).hash

\* --------------------------------------------------------------------- hex
HexDigits ==
    <<"0", "1", "2", "3", "4", "5", "6", "7", "8", "9", "a", "b", "c", "d", "e", "f">>

IsHexDigit(c) == \E i \in 1..16 : HexDigits[i] = c

NibbleOf(c) == (CHOOSE i \in 1..16 : HexDigits[i] = c) - 1

\* hex.Encode: two lowercase digits per byte, high nibble first.
hex_Encode(b) ==
    [i \in 1..(2 * Len(b)) |->
        IF i % 2 = 1 THEN HexDigits[(b[(i + 1) \div 2] \div 16) + 1]
        ELSE HexDigits[(b[i \div 2] % 16) + 1]]

\* hex.Decode: an error on an odd length or a character that is no hex digit.
hex_Decode(p) ==
    IF Len(p) % 2 = 1 \/ \E i \in 1..Len(p) : ~IsHexDigit(p[i])
    THEN [v |-> <<>>, err |-> TRUE]
    ELSE [v |-> [i \in 1..(Len(p) \div 2) |->
                    16 * NibbleOf(p[2 * i - 1]) + NibbleOf(p[2 * i])],
          err |-> FALSE]

TxData_MarshalText(tx) == Let(Encode(tx), LAMBDA b : hex_Encode(b))

\* ---------------------------------------------------------------- decoding
\* The intermediate read errors are dropped as in the code: a failed uvarint
\* or fixed-width read leaves its partial value and the reader at its end.
Outpoint_readFrom(r) ==
    Let(ReadFull(r, HashSize), LAMBDA h :
    Let(ReadUvarint(h.r), LAMBDA index :
        [v |-> [Hash |-> h.v, Index |-> Uint32(index.v)], r |-> index.r]))

AssetAmount_readFrom(r) ==
    Let(ReadFull(r, HashSize), LAMBDA id :
    Let(ReadUvarint(id.r), LAMBDA amount :
        [v |-> [AssetID |-> id.v, Amount |-> amount.v], r |-> amount.r]))

\* The four length-prefixed fields of an input, after prev and aa.
TxInput_readScripts(prev, aa) ==
    Let(ReadBytes(aa.r, scriptMaxByteLength), LAMBDA ps :
        IF ps.err THEN [v |-> ZeroTxInput, r |-> ps.r, err |-> TRUE] ELSE
    Let(ReadBytes(ps.r, scriptMaxByteLength), LAMBDA ss :
        IF ss.err THEN [v |-> ZeroTxInput, r |-> ss.r, err |-> TRUE] ELSE
    Let(ReadBytes(ss.r, metadataMaxByteLength), LAMBDA md :
        IF md.err THEN [v |-> ZeroTxInput, r |-> md.r, err |-> TRUE] ELSE
    Let(ReadBytes(md.r, assetDefinitionMaxByteLength), LAMBDA ad :
        [v |-> [Previous |-> prev.v, AssetAmount |-> aa.v, PrevScript |-> ps.v,
                SignatureScript |-> ss.v, Metadata |-> md.v,
                AssetDefinition |-> ad.v],
         r |-> ad.r, err |-> ad.err]))))

\* Into new(TxInput): [v, r, err]; v is used only when err is FALSE.
TxInput_readFrom(r) ==
    Let(Outpoint_readFrom(r), LAMBDA prev :
    Let(AssetAmount_readFrom(prev.r), LAMBDA aa : TxInput_readScripts(prev, aa)))

\* Into the commitment oc of a new(TxOutput): the envelope is read whole, and
\* decoded from a reader of its own only for asset version 1.
OutputCommitment_readFrom(r, oc, assetVersion) ==
    Let(ReadBytes(r, commitmentMaxByteLength), LAMBDA b :
        IF b.err THEN [v |-> oc, r |-> b.r, err |-> TRUE]
        ELSE IF assetVersion # <<1>> THEN [v |-> oc, r |-> b.r, err |-> FALSE] ELSE
    Let(AssetAmount_readFrom(b.v), LAMBDA aa :
    Let(ReadUvarint(aa.r), LAMBDA vmVersion :
    Let(ReadBytes(vmVersion.r, scriptMaxByteLength), LAMBDA cp :
        [v |-> [AssetAmount |-> aa.v, VMVersion |-> Uint32(vmVersion.v),
                ControlProgram |-> cp.v],
         r |-> b.r, err |-> cp.err]))))

\* An output read without the output witness after its reference data.
TxOutput_readFrom_NoWitness(r) ==
    Let(ReadUvarint(r), LAMBDA av :
    Let(OutputCommitment_readFrom(av.r, ZeroOutputCommitment, Uint32(av.v)), LAMBDA oc :
        IF oc.err THEN [v |-> ZeroTxOutput, r |-> oc.r, err |-> TRUE] ELSE
    Let(ReadBytes(oc.r, metadataMaxByteLength), LAMBDA rd :
        [v |-> [AssetVersion |-> Uint32(av.v), OutputCommitment |-> oc.v,
                ReferenceData |-> rd.v],
         r |-> rd.r, err |-> rd.err])))

\* Into new(TxOutput): [v, r, err]; v is used only when err is FALSE.
TxOutput_readFrom(r) ==
    Let(ReadUvarint(r), LAMBDA av :
    Let(OutputCommitment_readFrom(av.r, ZeroOutputCommitment, Uint32(av.v)), LAMBDA oc :
        IF oc.err THEN [v |-> ZeroTxOutput, r |-> oc.r, err |-> TRUE] ELSE
    Let(ReadBytes(oc.r, metadataMaxByteLength), LAMBDA rd :
        IF rd.err THEN [v |-> ZeroTxOutput, r |-> rd.r, err |-> TRUE] ELSE
    Let(ReadBytes(rd.r, commitmentMaxByteLength), LAMBDA wit :
        [v |-> [AssetVersion |-> Uint32(av.v), OutputCommitment |-> oc.v,
                ReferenceData |-> rd.v],
         r |-> wit.r, err |-> wit.err]))))

RECURSIVE readInputs(_, _, _)
\* for n := count; n > 0; n-- { read an input; return on error; append }
readInputs(r, n, inputs) ==
    IF UIsZero(n) THEN [v |-> inputs, r |-> r, err |-> FALSE]
    ELSE Let(TxInput_readFrom(r), LAMBDA ti :
             IF ti.err THEN [v |-> inputs, r |-> ti.r, err |-> TRUE]
             ELSE readInputs(ti.r, UDec(n), Append(inputs, ti.v)))

RECURSIVE readOutputs(_, _, _)
readOutputs(r, n, outputs) ==
    IF UIsZero(n) THEN [v |-> outputs, r |-> r, err |-> FALSE]
    ELSE Let(TxOutput_readFrom(r), LAMBDA to :
             IF to.err THEN [v |-> outputs, r |-> to.r, err |-> TRUE]
             ELSE readOutputs(to.r, UDec(n), Append(outputs, to.v)))

\* The end of readFrom with the error of the Metadata read dropped too.
TxData_readTail_ErrDropped(tx, r) ==
    Let(ReadUvarint(r), LAMBDA minTime :
    Let(ReadUvarint(minTime.r), LAMBDA maxTime :
    Let(ReadBytes(maxTime.r, metadataMaxByteLength), LAMBDA md :
        [tx |-> [tx EXCEPT !.MinTime = minTime.v, !.MaxTime = maxTime.v,
                           !.Metadata = md.v],
         err |-> "nil"])))

\* The end of readFrom: MinTime, MaxTime and Metadata, whose error is returned.
TxData_readTail(tx, r) ==
    Let(ReadUvarint(r), LAMBDA minTime :
    Let(ReadUvarint(minTime.r), LAMBDA maxTime :
    Let(ReadBytes(maxTime.r, metadataMaxByteLength), LAMBDA md :
        [tx |-> [tx EXCEPT !.MinTime = minTime.v, !.MaxTime = maxTime.v,
                           !.Metadata = md.v],
         err |-> IF md.err THEN "malformed" ELSE "nil"])))

\* Version, the inputs and the outputs, after the serflags.
TxData_readBody(tx, r) ==
    Let(ReadUvarint(r), LAMBDA v :
    Let(ReadUvarint(v.r), LAMBDA nin :
    Let(readInputs(nin.r, nin.v, tx.Inputs), LAMBDA ins :
        IF ins.err
        THEN [tx |-> [tx EXCEPT !.Version = Uint32(v.v), !.Inputs = ins.v],
              err |-> "malformed"] ELSE
    Let(ReadUvarint(ins.r), LAMBDA nout :
    Let(readOutputs(nout.r, nout.v, tx.Outputs), LAMBDA outs :
        IF outs.err
        THEN [tx |-> [tx EXCEPT !.Version = Uint32(v.v), !.Inputs = ins.v,
                                !.Outputs = outs.v],
              err |-> "malformed"]
        ELSE TxData_readTail([tx EXCEPT !.Version = Uint32(v.v), !.Inputs = ins.v,
                                        !.Outputs = outs.v],
                             outs.r))))))

\* tx.readFrom(r) on the receiver tx: the receiver after the call, and the
\* error returned ("nil" for none).
TxData_readFrom(tx, r) ==
    Let(ReadFull(r, 1), LAMBDA sf :
        IF ~sf.err /\ sf.v[1] # serRequired
        THEN [tx |-> [tx EXCEPT !.SerFlags = sf.v[1]], err |-> "unsupported serflags"]
        ELSE TxData_readBody([tx EXCEPT !.SerFlags = sf.v[1]], sf.r))

TxData_UnmarshalText(tx, p) ==
    Let(hex_Decode(p), LAMBDA b :
        IF b.err THEN [tx |-> tx, err |-> "invalid hex"]
        ELSE TxData_readFrom(tx, b.v))

\* val is [isBytes, b]: a []byte b, or a value of another type.
TxData_Scan(tx, val) ==
    IF ~val.isBytes THEN [tx |-> tx, err |-> "Scan must receive a byte slice"]
    ELSE TxData_readFrom(tx, val.b)

\* ---------------------------------------------------------------------- Tx
NewTx(data) == [TxData |-> data, Hash |-> TxData_Hash(data), Stored |-> FALSE]

Tx_UnmarshalText(tx, p) ==
    Let(TxData_UnmarshalText(tx.TxData, p), LAMBDA res :
        IF res.err # "nil" THEN [tx |-> [tx EXCEPT !.TxData = res.tx], err |-> res.err]
        ELSE [tx |-> [tx EXCEPT !.TxData = res.tx, !.Hash = TxData_Hash(res.tx)],
              err |-> "nil"])

\* Scan is promoted from the embedded TxData: it never touches Tx.Hash.
Tx_Scan(tx, val) ==
    Let(TxData_Scan(tx.TxData, val), LAMBDA res :
        [tx |-> [tx EXCEPT !.TxData = res.tx], err |-> res.err])

\* ------------------------------------------------------------------ inputs
H1 == [i \in 1..HashSize |-> 17]

A1 == [i \in 1..HashSize |-> 34]

\* A spend of output 0 of H1, and an issuance.
inSpend ==
    [Previous |-> [Hash |-> H1, Index |-> <<0>>],
     AssetAmount |-> [AssetID |-> A1, Amount |-> U(300)], PrevScript |-> <<81>>,
     SignatureScript |-> <<1, 2>>, Metadata |-> <<7>>, AssetDefinition |-> <<>>]

inIssue ==
    [Previous |-> [Hash |-> ZeroHash, Index |-> InvalidOutputIndex],
     AssetAmount |-> [AssetID |-> A1, Amount |-> <<5>>], PrevScript |-> <<>>,
     SignatureScript |-> <<3>>, Metadata |-> <<>>, AssetDefinition |-> <<9, 9>>]

\* An asset-version-1 output, and one of an unknown asset version.
out1 ==
    [AssetVersion |-> <<1>>,
     OutputCommitment |-> [AssetAmount |-> [AssetID |-> A1, Amount |-> U(100)],
                           VMVersion |-> <<1>>, ControlProgram |-> <<118>>],
     ReferenceData |-> <<>>]

outV2 ==
    [AssetVersion |-> <<2>>,
     OutputCommitment |-> [AssetAmount |-> [AssetID |-> A1, Amount |-> <<9>>],
                           VMVersion |-> <<1>>, ControlProgram |-> <<>>],
     ReferenceData |-> <<4>>]

InputSet == {inSpend, inIssue}

OutputSet == {out1, outV2}

SeqsUpTo(S, n) == UNION {[1..k -> S] : k \in 0..n}

TxDataSet ==
    [SerFlags : {0}, Version : {<<1>>}, Inputs : SeqsUpTo(InputSet, MaxItems),
     Outputs : SeqsUpTo(OutputSet, MaxItems), MinTime : {<<0>>},
     MaxTime : {U(200)}, Metadata : {<<>>, <<5>>}]

\* Replacement bytes of the prunable fields.
PruneBytes == {<<>>, <<5>>, <<6, 6>>}

\* The transactions and byte streams the Tx operations are driven with: three
\* transactions, their encodings, and streams that fail to decode (cut short,
\* unsupported serflags, a metadata length over its cap, empty).
txA == [ZeroTxData EXCEPT !.Version = <<1>>]

txB == [ZeroTxData EXCEPT !.Version = <<2>>, !.Inputs = <<inSpend>>, !.Outputs = <<out1>>]

txC == [ZeroTxData EXCEPT !.Version = <<1>>, !.Inputs = <<inIssue>>, !.Metadata = <<5>>]

TxSeeds == {txA, txB, txC}

OverCapStream ==
    <<serRequired, 1, 0, 0, 0, 0>> \o PutUvarint(U(metadataMaxByteLength + 1))

TxStreams ==
    {Encode(d) : d \in TxSeeds}
    \cup {Prefix(Encode(d), Len(Encode(d)) - 1) : d \in TxSeeds}
    \cup {<<0>> \o Tail(Encode(txB)), OverCapStream, <<>>}

TxTexts == {hex_Encode(b) : b \in TxStreams} \cup {<<"0">>, <<"z", "7">>}

ScanValues ==
    {[isBytes |-> TRUE, b |-> b] : b \in TxStreams} \cup {[isBytes |-> FALSE, b |-> <<>>]}

\* ------------------------------------------------------------------- state
VARIABLES
    tx,       \* a Tx: [TxData, Hash, Stored]
    before,   \* its TxData before the last operation on it
    lastOp,   \* the last operation on it
    lastErr,  \* the error that operation returned, "nil" for none
    calls,    \* decode calls made on it
    t,        \* the TxData a codec, hash, signature-hash or WriteTo run is about
    wire,     \* its encoding: [kind, data], kind "bytes", "text" or "none"
    dec,      \* the decode of a prefix of wire: [done, cut, full, tx, err]
    pruned,   \* t with bytes of prunable fields replaced
    kind,     \* the kind of field replaced, "none" before any
    hashes,   \* [done, orig, pruned]: Hash(t) and Hash(pruned)
    wres,     \* a WriteTo of t to a sink: [done, w, n, err]
    sh,       \* the SigHasher of t: [inputsHash, allOutputsHash]
    sigRes,   \* its last Hash call: [done, idx, hashType, hash]
    pc,       \* per concurrent caller, where it is in Hash
    loc,      \* per concurrent caller, the midstates it holds
    computes  \* per midstate, how many callers have computed it

vars ==
    <<tx, before, lastOp, lastErr, calls, t, wire, dec, pruned, kind, hashes,
      wres, sh, sigRes, pc, loc, computes>>

NoWire == [kind |-> "none", data |-> <<>>]

NoDec == [done |-> FALSE, cut |-> 0, full |-> FALSE, tx |-> ZeroTxData, err |-> "nil"]

TxIdle ==
    /\ tx = [TxData |-> ZeroTxData, Hash |-> ZeroHash, Stored |-> FALSE]
    /\ before = ZeroTxData
    /\ lastOp = "none"
    /\ lastErr = "nil"
    /\ calls = 0

CodecIdle == wire = NoWire /\ dec = NoDec

txVars == <<tx, before, lastOp, lastErr, calls>>

codecVars == <<wire, dec>>

hashVars == <<pruned, kind, hashes>>

sigVars == <<sh, sigRes>>

concVars == <<pc, loc, computes>>

Callers == 1..NumCallers

NoHashes == [done |-> FALSE, orig |-> ZeroHash, pruned |-> ZeroHash]

HashIdle == pruned = ZeroTxData /\ kind = "none" /\ hashes = NoHashes

NoWres == [done |-> FALSE, w |-> NewBuffer, n |-> 0, err |-> FALSE]

SinkIdle == wres = NoWres

NoSigRes == [done |-> FALSE, idx |-> 0, hashType |-> 0, hash |-> ZeroHash]

SigIdle == sh = NewSigHasher /\ sigRes = NoSigRes

NoLoc ==
    [hashType |-> 0, inputsHash |-> ZeroHash, allOutputsHash |-> ZeroHash,
     hash |-> ZeroHash]

ConcIdle ==
    /\ pc = [c \in Callers |-> "idle"]
    /\ loc = [c \in Callers |-> NoLoc]
    /\ computes = [inputsHash |-> 0, allOutputsHash |-> 0]

\* What the operations on a Tx, and the codec runs, leave alone.
otherVars == <<hashVars, wres, sigVars, concVars>>

\* ------------------------------------------------------- Tx: the operations
DoNewTx(data) ==
    /\ tx' = NewTx(data)
    /\ before' = data
    /\ lastOp' = "NewTx"
    /\ lastErr' = "nil"
    /\ calls' = 0
    /\ UNCHANGED <<t, codecVars, otherVars>>

DoTxUnmarshalText(p) ==
    /\ calls < MaxCalls
    /\ \E res \in {Tx_UnmarshalText(tx, p)} :
          /\ tx' = res.tx
          /\ lastErr' = res.err
    /\ before' = tx.TxData
    /\ lastOp' = "UnmarshalText"
    /\ calls' = calls + 1
    /\ UNCHANGED <<t, codecVars, otherVars>>

DoTxScan(val) ==
    /\ calls < MaxCalls
    /\ \E res \in {Tx_Scan(tx, val)} :
          /\ tx' = res.tx
          /\ lastErr' = res.err
    /\ before' = tx.TxData
    /\ lastOp' = "Scan"
    /\ calls' = calls + 1
    /\ UNCHANGED <<t, codecVars, otherVars>>

Init ==
    /\ tx = NewTx(txA)
    /\ before = txA
    /\ lastOp = "NewTx"
    /\ lastErr = "nil"
    /\ calls = 0
    /\ t = ZeroTxData
    /\ CodecIdle /\ HashIdle /\ SinkIdle /\ SigIdle /\ ConcIdle

Next ==
    \/ \E data \in TxSeeds : DoNewTx(data)
    \/ \E p \in TxTexts : DoTxUnmarshalText(p)
    \/ \E val \in ScanValues : DoTxScan(val)

Spec == Init /\ [][Next]_vars

\* C1: after any sequence of NewTx, Tx.UnmarshalText and the promoted Scan,
\* failed or not, the cached Tx.Hash equals Hash(Tx.TxData) recomputed.
C1_HashIsFresh == tx.Hash = TxData_Hash(tx.TxData)

\* C5: a decode call that returns an error leaves every field of the
\* receiving TxData as it was before the call.
C5_NoPartialDecode ==
    (lastOp \in {"UnmarshalText", "Scan"} /\ lastErr # "nil") => tx.TxData = before

\* ---------------------------------------------------- codec: the operations
\* One run: t is encoded (WriteTo into a buffer, or MarshalText), then a
\* prefix of the encoding, or all of it, is decoded into a fresh TxData.
DoWriteTo ==
    /\ wire.kind = "none"
    /\ wire' = [kind |-> "bytes", data |-> Encode(t)]
    /\ UNCHANGED <<txVars, t, dec, otherVars>>

DoMarshalText ==
    /\ wire.kind = "none"
    /\ wire' = [kind |-> "text", data |-> TxData_MarshalText(t)]
    /\ UNCHANGED <<txVars, t, dec, otherVars>>

DoScan(k) ==
    /\ wire.kind = "bytes"
    /\ ~dec.done
    /\ \E res \in {TxData_Scan(ZeroTxData, [isBytes |-> TRUE, b |-> Prefix(wire.data, k)])} :
          dec' = [done |-> TRUE, cut |-> k, full |-> (k = Len(wire.data)),
                  tx |-> res.tx, err |-> res.err]
    /\ UNCHANGED <<txVars, t, wire, otherVars>>

DoUnmarshalText(k) ==
    /\ wire.kind = "text"
    /\ ~dec.done
    /\ \E p \in {Prefix(wire.data, k)} :
       \E res \in {TxData_UnmarshalText(ZeroTxData, p)} :
          dec' = [done |-> TRUE, cut |-> k, full |-> (k = Len(wire.data)),
                  tx |-> res.tx, err |-> res.err]
    /\ UNCHANGED <<txVars, t, wire, otherVars>>

\* The cuts of a text: every one near its ends, every eighth between.
TextCuts(n) == {k \in 0..n : k <= 8 \/ k >= n - 8 \/ k % 8 = 0}

InitCodec ==
    /\ TxIdle
    /\ t \in TxDataSet
    /\ CodecIdle /\ HashIdle /\ SinkIdle /\ SigIdle /\ ConcIdle

NextCodec ==
    \/ DoWriteTo
    \/ DoMarshalText
    \/ \E k \in 0..Len(wire.data) : DoScan(k)
    \/ \E k \in TextCuts(Len(wire.data)) : DoUnmarshalText(k)

SpecCodec == InitCodec /\ [][NextCodec]_vars

\* Every field within its cap, every output of asset version 1.
WellFormed(d) ==
    /\ Len(d.Metadata) <= metadataMaxByteLength
    /\ \A i \in 1..Len(d.Inputs) :
          /\ Len(d.Inputs[i].PrevScript) <= scriptMaxByteLength
          /\ Len(d.Inputs[i].SignatureScript) <= scriptMaxByteLength
          /\ Len(d.Inputs[i].Metadata) <= metadataMaxByteLength
          /\ Len(d.Inputs[i].AssetDefinition) <= assetDefinitionMaxByteLength
    /\ \A i \in 1..Len(d.Outputs) :
          /\ d.Outputs[i].AssetVersion = <<1>>
          /\ Len(d.Outputs[i].OutputCommitment.ControlProgram) <= scriptMaxByteLength
          /\ Len(d.Outputs[i].ReferenceData) <= metadataMaxByteLength

\* Field for field, all but SerFlags.
SameFields(a, b) ==
    /\ a.Version = b.Version
    /\ a.Inputs = b.Inputs
    /\ a.Outputs = b.Outputs
    /\ a.MinTime = b.MinTime
    /\ a.MaxTime = b.MaxTime
    /\ a.Metadata = b.Metadata

\* C4: decoding the whole serflags-0x07 encoding of a well-formed t into a
\* fresh TxData succeeds and reproduces t field for field.
C4_RoundTrip ==
    (dec.done /\ dec.full /\ WellFormed(t)) => (dec.err = "nil" /\ SameFields(dec.tx, t))

C4_Witness ==
    /\ dec.done /\ dec.full /\ WellFormed(t)
    /\ Len(t.Inputs) = MaxItems /\ Len(t.Outputs) >= 1
    /\ dec.tx.Inputs = t.Inputs

\* C6: decoding a strict prefix of the encoding of a well-formed t returns an
\* error, wherever the cut falls.
C6_TruncationDetected ==
    (dec.done /\ ~dec.full /\ WellFormed(t)) => dec.err # "nil"

\* A cut inside the last output's commitment envelope of a transaction with
\* inputs, reported as an error.
C6_Witness ==
    /\ dec.done /\ ~dec.full /\ WellFormed(t) /\ wire.kind = "bytes"
    /\ Len(t.Inputs) >= 1 /\ Len(t.Outputs) >= 1 /\ t.Metadata = <<>>
    /\ dec.cut = Len(wire.data) - 10
    /\ dec.err = "malformed"

\* The length-prefixed form of a byte string on the wire.
LengthPrefixed(b) == PutUvarint(U(Len(b))) \o b

\* The input record as the wire-format table gives it.
InputLayoutListed(ti) ==
    ti.Previous.Hash \o PutUvarint(ti.Previous.Index)
    \o ti.AssetAmount.AssetID \o PutUvarint(ti.AssetAmount.Amount)
    \o LengthPrefixed(ti.SignatureScript)
    \o LengthPrefixed(ti.Metadata)
    \o LengthPrefixed(ti.AssetDefinition)

\* The same with the length-prefixed prev_script after the amount.
InputLayoutWithPrevScript(ti) ==
    ti.Previous.Hash \o PutUvarint(ti.Previous.Index)
    \o ti.AssetAmount.AssetID \o PutUvarint(ti.AssetAmount.Amount)
    \o LengthPrefixed(ti.PrevScript)
    \o LengthPrefixed(ti.SignatureScript)
    \o LengthPrefixed(ti.Metadata)
    \o LengthPrefixed(ti.AssetDefinition)

\* The bytes of wire between the input count and the output count.
InputSection(d, b) ==
    LET header == 1 + Len(PutUvarint(d.Version)) + Len(PutUvarint(U(Len(d.Inputs))))
        rest == Len(Written(WriteUvarint(U(Len(d.Outputs)))
                            \o writeOutputs(d.Outputs, 1, serRequired)
                            \o WriteUvarint(d.MinTime) \o WriteUvarint(d.MaxTime)
                            \o writeMetadata(d.Metadata, serRequired)))
    IN  SubSeq(b, header + 1, Len(b) - rest)

RECURSIVE ListedLayouts(_, _)
ListedLayouts(inputs, i) ==
    IF i > Len(inputs) THEN <<>>
    ELSE InputLayoutListed(inputs[i]) \o ListedLayouts(inputs, i + 1)

RECURSIVE PrevScriptLayouts(_, _)
PrevScriptLayouts(inputs, i) ==
    IF i > Len(inputs) THEN <<>>
    ELSE InputLayoutWithPrevScript(inputs[i]) \o PrevScriptLayouts(inputs, i + 1)

\* C10 as claimed: in the full encoding every input record is previous_tx_hash,
\* previous_output_index, asset_id, amount, signature_script, metadata,
\* asset_definition, and nothing else.
C10_ListedLayout ==
    wire.kind = "bytes" => InputSection(t, wire.data) = ListedLayouts(t.Inputs, 1)

\* C10 as amended: prevout mode adds asset_id, amount and the length-prefixed
\* prev_script between the outpoint and the signature_script.
C10_LayoutWithPrevScript ==
    wire.kind = "bytes" => InputSection(t, wire.data) = PrevScriptLayouts(t.Inputs, 1)

C10_Witness ==
    /\ wire.kind = "bytes"
    /\ Len(t.Inputs) = MaxItems
    /\ t.Inputs[1] = inSpend
    /\ Len(InputSection(t, wire.data)) > 0

\* ----------------------------------------------- pruning: the operations
\* One run: bytes of one kind of prunable field of t are replaced, in the
\* transaction or in any of its inputs, then both transactions are hashed.
Replace(k, d) ==
    /\ ~hashes.done
    /\ kind \in {"none", k}
    /\ kind' = k
    /\ pruned' = d
    /\ UNCHANGED <<txVars, t, codecVars, hashes, wres, sigVars, concVars>>

ReplaceMetadata(b) == Replace("Metadata", [pruned EXCEPT !.Metadata = b])

ReplaceInputMetadata(i, b) ==
    Replace("InputMetadata", [pruned EXCEPT !.Inputs[i].Metadata = b])

ReplaceAssetDefinition(i, b) ==
    Replace("AssetDefinition", [pruned EXCEPT !.Inputs[i].AssetDefinition = b])

ReplaceSignatureScript(i, b) ==
    Replace("SignatureScript", [pruned EXCEPT !.Inputs[i].SignatureScript = b])

DoHash ==
    /\ ~hashes.done
    /\ hashes' = [done |-> TRUE, orig |-> TxData_Hash(t), pruned |-> TxData_Hash(pruned)]
    /\ UNCHANGED <<txVars, t, codecVars, pruned, kind, wres, sigVars, concVars>>

\* The transactions hashed: those with an empty output list or only out1.
HashTxs == {d \in TxDataSet : \A i \in 1..Len(d.Outputs) : d.Outputs[i] = out1}

InitHash ==
    /\ TxIdle /\ CodecIdle /\ SinkIdle /\ SigIdle /\ ConcIdle
    /\ t \in HashTxs
    /\ pruned = t
    /\ kind = "none"
    /\ hashes = NoHashes

NextHash ==
    \/ \E b \in PruneBytes : ReplaceMetadata(b)
    \/ \E i \in 1..Len(t.Inputs), b \in PruneBytes : ReplaceInputMetadata(i, b)
    \/ \E i \in 1..Len(t.Inputs), b \in PruneBytes : ReplaceAssetDefinition(i, b)
    \/ \E i \in 1..Len(t.Inputs), b \in PruneBytes : ReplaceSignatureScript(i, b)
    \/ DoHash

SpecHash == InitHash /\ [][NextHash]_vars

MetadataKinds == {"Metadata", "InputMetadata", "AssetDefinition"}

\* The digests the canonical rendering carries for the metadata-like fields.
PrunedDigests(d) ==
    <<fastHash(d.Metadata),
      [i \in 1..Len(d.Inputs) |-> fastHash(d.Inputs[i].Metadata)],
      [i \in 1..Len(d.Inputs) |-> fastHash(d.Inputs[i].AssetDefinition)]>>

\* C2 as claimed: replacing the bytes of the transaction Metadata, an input's
\* Metadata or an input's AssetDefinition by any other bytes leaves Hash(t)
\* unchanged.
C2_MetadataPruningInvariant ==
    (hashes.done /\ kind \in MetadataKinds) => hashes.pruned = hashes.orig

\* C2 as amended: after such a replacement Hash(t') = Hash(t) exactly when the
\* digest of every replaced field equals the digest of the bytes it replaced;
\* the hash commits to the digests, so other bytes change it.
C2_HashCommitsToDigests ==
    (hashes.done /\ kind \in MetadataKinds) =>
        ((hashes.pruned = hashes.orig) <=> (PrunedDigests(pruned) = PrunedDigests(t)))

C2_Witness ==
    /\ hashes.done /\ kind = "AssetDefinition"
    /\ pruned # t
    /\ hashes.pruned # hashes.orig

DoWriteToSink(failAt, accept) ==
    /\ ~wres.done
    /\ \E res \in {TxData_WriteTo(NewSink(failAt, accept), t)} :
          wres' = [done |-> TRUE, w |-> res.w, n |-> res.n, err |-> res.err]
    /\ UNCHANGED <<txVars, t, codecVars, hashVars, sigVars, concVars>>

\* The transactions written: those with metadata.
SinkTxs == {d \in TxDataSet : d.Metadata # <<>>}

InitSink ==
    /\ TxIdle /\ CodecIdle /\ HashIdle /\ SigIdle /\ ConcIdle
    /\ t \in SinkTxs
    /\ wres = NoWres

NextSink ==
    \E failAt \in 0..(Len(TxData_writeTo(t, serRequired)) + 1), accept \in 0..1 :
        DoWriteToSink(failAt, accept)

SpecSink == InitSink /\ [][NextSink]_vars

RECURSIVE WrittenLen(_, _)
\* The bytes of the first k of the Write calls ops.
WrittenLen(ops, k) == IF k = 0 THEN 0 ELSE Len(ops[k].p) + WrittenLen(ops, k - 1)

\* The sink's failing Write was reached.
SinkFailed == wres.w.failAt \in 1..Len(TxData_writeTo(t, serRequired))

\* C9: when the sink's k-th Write fails, the sink is written no more after it,
\* WriteTo returns the error, and the count returned is the number of bytes
\* the sink took, a prefix of the encoding; a sink that never fails gets the
\* whole encoding and WriteTo returns no error.
C9_FirstErrorHalts ==
    wres.done =>
        IF SinkFailed
        THEN /\ wres.err
             /\ wres.w.calls = wres.w.failAt
             /\ wres.n = Len(wres.w.buf)
             /\ wres.w.buf = Prefix(Encode(t), wres.n)
             /\ wres.n = WrittenLen(TxData_writeTo(t, serRequired), wres.w.failAt - 1)
                         + Min(wres.w.accept,
                               Len(TxData_writeTo(t, serRequired)[wres.w.failAt].p))
        ELSE /\ ~wres.err
             /\ wres.w.buf = Encode(t)
             /\ wres.n = Len(Encode(t))

\* A failure in the middle of an input, part of the failing Write taken.
C9_Witness ==
    /\ wres.done /\ SinkFailed /\ wres.err
    /\ Len(t.Inputs) >= 1
    /\ wres.w.failAt = 5
    /\ wres.w.accept = 1
    /\ wres.n > HashSize
    /\ wres.n < Len(Encode(t))

\* --------------------------------------------- SigHasher: the operations
HashTypes ==
    {SigHashAll, SigHashNone, SigHashSingle, SigHashAll + SigHashAnyOneCanPay,
     SigHashNone + SigHashAnyOneCanPay, SigHashSingle + SigHashAnyOneCanPay}

\* s.Hash(idx, hashType) on the SigHasher of t, idx a valid index into Inputs.
DoSigHash(idx, hashType) ==
    /\ idx < Len(t.Inputs)
    /\ \E res \in {SigHasher_Hash(sh, t, idx, hashType)} :
          /\ sh' = res.s
          /\ sigRes' = [done |-> TRUE, idx |-> idx, hashType |-> hashType,
                        hash |-> res.hash]
    /\ UNCHANGED <<txVars, t, codecVars, hashVars, wres, concVars>>

SigTxs == {d \in TxDataSet : Len(d.Inputs) >= 1 /\ d.Metadata # <<>>}

InitSig ==
    /\ TxIdle /\ CodecIdle /\ HashIdle /\ SinkIdle /\ ConcIdle
    /\ t \in SigTxs
    /\ SigIdle

NextSig == \E idx \in 0..(MaxItems - 1), hashType \in HashTypes : DoSigHash(idx, hashType)

SpecSig == InitSig /\ [][NextSig]_vars

\* C8: whatever calls were made before on the SigHasher, a call returns the
\* hash a fresh SigHasher (TxData.HashForSig) returns for the same idx and
\* hashType.
C8_MemoTransparent ==
    sigRes.done => sigRes.hash = TxData_HashForSig(t, sigRes.idx, sigRes.hashType)

\* A call that found both midstates memoized by earlier calls.
C8_Witness ==
    /\ sigRes.done
    /\ sh.inputsHash.set /\ sh.allOutputsHash.set
    /\ sigRes.hashType = SigHashSingle
    /\ sigRes.idx = MaxItems - 1
    /\ Len(t.Outputs) = MaxItems

\* ------------------------------------- SigHasher under concurrent callers
\* Each caller makes one call s.Hash(0, hashType) on the shared SigHasher sh
\* of t, a statement at a time.  The code takes no lock and uses no atomic
\* operation, so the callers' reads and writes of the two pointer fields
\* race: a read of a field may still find nil after another caller has set
\* it, and a Hash reached through a pointer another caller has just set may
\* not show that caller's bytes yet (ZeroHash, the value of `var hash Hash`).
ConcHashTypes == {SigHashAll, SigHashNone, SigHashAll + SigHashAnyOneCanPay}

\* Where a caller goes after the inputsHash part, and after the outputsHash part.
AfterInputs(hashType) ==
    IF BaseType(hashType) = SigHashAll THEN "checkOutputs" ELSE "final"

Call(c, hashType) ==
    /\ pc[c] = "idle"
    /\ loc' = [loc EXCEPT ![c].hashType = hashType]
    /\ pc' = [pc EXCEPT ![c] = IF IsAnyOneCanPay(hashType) THEN AfterInputs(hashType)
                                ELSE "checkInputs"]
    /\ UNCHANGED <<txVars, t, codecVars, hashVars, wres, sigVars, computes>>

\* if s.inputsHash == nil, found nil.
CheckInputsNil(c) ==
    /\ pc[c] = "checkInputs"
    /\ pc' = [pc EXCEPT ![c] = "computeInputs"]
    /\ UNCHANGED <<txVars, t, codecVars, hashVars, wres, sigVars, loc, computes>>

\* if s.inputsHash == nil, found set: return s.inputsHash.
CheckInputsSet(c) ==
    /\ pc[c] = "checkInputs"
    /\ sh.inputsHash.set
    /\ \E seen \in {sh.inputsHash.h, ZeroHash} :
          loc' = [loc EXCEPT ![c].inputsHash = seen]
    /\ pc' = [pc EXCEPT ![c] = AfterInputs(loc[c].hashType)]
    /\ UNCHANGED <<txVars, t, codecVars, hashVars, wres, sigVars, computes>>

\* The digest over all inputs, into the local hash.
ComputeInputs(c) ==
    /\ pc[c] = "computeInputs"
    /\ loc' = [loc EXCEPT ![c].inputsHash = InputsDigest(t)]
    /\ computes' = [computes EXCEPT !.inputsHash = @ + 1]
    /\ pc' = [pc EXCEPT ![c] = "publishInputs"]
    /\ UNCHANGED <<txVars, t, codecVars, hashVars, wres, sigVars>>

\* s.inputsHash = &hash
PublishInputs(c) ==
    /\ pc[c] = "publishInputs"
    /\ sh' = [sh EXCEPT !.inputsHash = [set |-> TRUE, h |-> loc[c].inputsHash]]
    /\ pc' = [pc EXCEPT ![c] = AfterInputs(loc[c].hashType)]
    /\ UNCHANGED <<txVars, t, codecVars, hashVars, wres, sigRes, loc, computes>>

CheckOutputsNil(c) ==
    /\ pc[c] = "checkOutputs"
    /\ pc' = [pc EXCEPT ![c] = "computeOutputs"]
    /\ UNCHANGED <<txVars, t, codecVars, hashVars, wres, sigVars, loc, computes>>

CheckOutputsSet(c) ==
    /\ pc[c] = "checkOutputs"
    /\ sh.allOutputsHash.set
    /\ \E seen \in {sh.allOutputsHash.h, ZeroHash} :
          loc' = [loc EXCEPT ![c].allOutputsHash = seen]
    /\ pc' = [pc EXCEPT ![c] = "final"]
    /\ UNCHANGED <<txVars, t, codecVars, hashVars, wres, sigVars, computes>>

ComputeOutputs(c) ==
    /\ pc[c] = "computeOutputs"
    /\ loc' = [loc EXCEPT ![c].allOutputsHash = OutputsDigest(t)]
    /\ computes' = [computes EXCEPT !.allOutputsHash = @ + 1]
    /\ pc' = [pc EXCEPT ![c] = "publishOutputs"]
    /\ UNCHANGED <<txVars, t, codecVars, hashVars, wres, sigVars>>

PublishOutputs(c) ==
    /\ pc[c] = "publishOutputs"
    /\ sh' = [sh EXCEPT !.allOutputsHash = [set |-> TRUE, h |-> loc[c].allOutputsHash]]
    /\ pc' = [pc EXCEPT ![c] = "final"]
    /\ UNCHANGED <<txVars, t, codecVars, hashVars, wres, sigRes, loc, computes>>

\* The final digest, from the contributions the caller holds.
Final(c) ==
    /\ pc[c] = "final"
    /\ loc' = [loc EXCEPT ![c].hash =
                  SigFinalDigest(t, 0, loc[c].hashType, loc[c].inputsHash,
                                 loc[c].allOutputsHash)]
    /\ pc' = [pc EXCEPT ![c] = "done"]
    /\ UNCHANGED <<txVars, t, codecVars, hashVars, wres, sigVars, computes>>

InitConc ==
    /\ TxIdle /\ CodecIdle /\ HashIdle /\ SinkIdle /\ SigIdle /\ ConcIdle
    /\ t = [txB EXCEPT !.Metadata = <<5>>]

NextConc ==
    \E c \in Callers :
        \/ \E hashType \in ConcHashTypes : Call(c, hashType)
        \/ CheckInputsNil(c)
        \/ CheckInputsSet(c)
        \/ ComputeInputs(c)
        \/ PublishInputs(c)
        \/ CheckOutputsNil(c)
        \/ CheckOutputsSet(c)
        \/ ComputeOutputs(c)
        \/ PublishOutputs(c)
        \/ Final(c)

SpecConc == InitConc /\ [][NextConc]_vars

\* C7: in every interleaving of concurrent Hash calls on one SigHasher, each
\* memoized midstate is computed by one caller only.
C7_ComputedOnce == computes.inputsHash <= 1 /\ computes.allOutputsHash <= 1

\* --------------------------------------- decoding an index from the wire
\* Values of the uvarint previous_output_index a stream can carry: 0, 1,
\* 0xFFFFFFFE, 0xFFFFFFFF, 2^32, 0x1FFFFFFFF and 2^64 - 1.
WireIndexes ==
    {<<0>>, <<1>>, <<126, 127, 127, 127, 15>>, InvalidOutputIndex,
     <<0, 0, 0, 0, 16>>, <<127, 127, 127, 127, 31>>,
     <<127, 127, 127, 127, 127, 127, 127, 127, 127, 1>>}

WireIndexLists == UNION {[1..k -> WireIndexes] : k \in 1..MaxItems}

\* The full encoding of a transaction whose i-th input record carries the
\* uvarint idxs[i] as its previous_output_index, as bytes or as hex text.
WireTx(idxs, form) ==
    Let(Encode([txA EXCEPT !.Inputs =
                   [i \in 1..Len(idxs) |-> [inSpend EXCEPT !.Previous.Index = idxs[i]]]]),
        LAMBDA b : IF form = "text" THEN hex_Encode(b) ELSE b)

\* One run: a stream carrying chosen wire indexes is decoded, whole, into a
\* fresh TxData by Scan or by UnmarshalText.
InitWire ==
    /\ TxIdle
    /\ t = ZeroTxData
    /\ \E idxs \in WireIndexLists, form \in {"bytes", "text"} :
          wire = [kind |-> form, data |-> WireTx(idxs, form)]
    /\ dec = NoDec
    /\ HashIdle /\ SinkIdle /\ SigIdle /\ ConcIdle

NextWire ==
    \/ DoScan(Len(wire.data))
    \/ DoUnmarshalText(Len(wire.data))

SpecWire == InitWire /\ [][NextWire]_vars

\* C11: a decoded input is an issuance input exactly when the uvarint
\* previous_output_index its record carried on the wire is 0xFFFFFFFF; no
\* other wire value, none above 2^32 - 1 in particular, decodes to one.
C11_WireSentinel ==
    (dec.done /\ dec.err = "nil") =>
        \A idxs \in WireIndexLists :
            wire.data = WireTx(idxs, wire.kind) =>
                /\ Len(dec.tx.Inputs) = Len(idxs)
                /\ \A i \in 1..Len(idxs) :
                      IsIssuance(dec.tx.Inputs[i]) <=> (idxs[i] = InvalidOutputIndex)

\* ------------------------------------------- decoding into a used receiver
\* One run: the valid encoding of a transaction, bytes or hex text, is decoded
\* into a receiver that holds t, and again into what the receiver then holds.
Receiver == IF dec.done THEN dec.tx ELSE t

DoRecvScan ==
    /\ wire.kind = "bytes"
    /\ calls < MaxCalls
    /\ \E res \in {TxData_Scan(Receiver, [isBytes |-> TRUE, b |-> wire.data])} :
          dec' = [done |-> TRUE, cut |-> Len(wire.data), full |-> TRUE,
                  tx |-> res.tx, err |-> res.err]
    /\ calls' = calls + 1
    /\ UNCHANGED <<tx, before, lastOp, lastErr, t, wire, otherVars>>

DoRecvUnmarshalText ==
    /\ wire.kind = "text"
    /\ calls < MaxCalls
    /\ \E res \in {TxData_UnmarshalText(Receiver, wire.data)} :
          dec' = [done |-> TRUE, cut |-> Len(wire.data), full |-> TRUE,
                  tx |-> res.tx, err |-> res.err]
    /\ calls' = calls + 1
    /\ UNCHANGED <<tx, before, lastOp, lastErr, t, wire, otherVars>>

InitRecv ==
    /\ TxIdle
    /\ t \in TxDataSet
    /\ \E d \in TxSeeds :
          \/ wire = [kind |-> "bytes", data |-> Encode(d)]
          \/ wire = [kind |-> "text", data |-> TxData_MarshalText(d)]
    /\ dec = NoDec
    /\ HashIdle /\ SinkIdle /\ SigIdle /\ ConcIdle

NextRecv ==
    \/ DoRecvScan
    \/ DoRecvUnmarshalText

SpecRecv == InitRecv /\ [][NextRecv]_vars

\* The same stream decoded into a fresh zero TxData.
FreshDecode ==
    IF wire.kind = "text" THEN TxData_UnmarshalText(ZeroTxData, wire.data)
    ELSE TxData_Scan(ZeroTxData, [isBytes |-> TRUE, b |-> wire.data])

\* C12: a successful decode leaves the receiver equal to the decode of the
\* same bytes into a fresh zero TxData, whatever the receiver held before;
\* decoding the same bytes twice gives what decoding them once gives.
C12_ReceiverIndependent ==
    (dec.done /\ dec.err = "nil") => dec.tx = FreshDecode.tx

====
